---- MODULE Spec2Model ----
(***************************************************************************)
(* State-machine model of the mystic_tales chat application (src/app.py):  *)
(* the messages table with store_message / fetch_messages, the Flask       *)
(* session, the login_required and rate_limit decorators and the request   *)
(* handlers.  Every handler is a sequence of steps, one per database       *)
(* statement, clock read or external call, so that requests handled by     *)
(* different threads can interleave between those steps.                   *)
(***************************************************************************)
EXTENDS Integers, Sequences, FiniteSets, TLC

\* ------------------------------------------------------------------------
\* Bounds of the model
\* ------------------------------------------------------------------------
\* request-handling threads of the server
NumProcs == 2
\* rows the messages table may hold (requests that could exceed it are not started)
MaxMsgs == 3
\* last value of the web server's clock, in seconds
MaxTime == 8
\* last value of the database clock, in units of the resolution of created_at
MaxDbTime == 1
\* rows of the pre-populated conversation of the conversation-log specification
MaxLog == 12
\* largest explicit limit passed to fetch_messages by the conversation-log specification
MaxLimit == 3

\* ------------------------------------------------------------------------
\* Program constants
\* ------------------------------------------------------------------------
\* @rate_limit(15): max_per_minute
MaxPerMinute == 15
\* interval = 60 / max_per_minute
Interval == 60 \div MaxPerMinute
\* fetch_messages(character, limit=10) in send_message
HistoryLimit == 10

Procs == 1..NumProcs
Sessions == {"s1", "s2"}
\* "no value": a missing session key, Python None, SQL NULL
None == "None"
\* rows of the characters table: code_name -> name, avatar
CharacterRows ==
  [eldrin |-> [name |-> "Eldrin", avatar |-> "eldrin.png", prompt |-> <<"You are Eldrin.">>]]
CodeNames == DOMAIN CharacterRows
\* code names random.choices may produce in generate_unique_code_name
CodePool == {"char_a"}
\* rows of character_greetings, per character (created characters have none)
GreetingRows == [eldrin |-> {"Well met.", "Speak."}]
\* code names a request may ask for (one of them never stored)
RequestedCodes == CodeNames \cup CodePool \cup {"ghost"}
\* raw form fields of signup and login
RawUsernames == {" ", " alice "}
RawPasswords == {"", " pw1 "}
\* a password login may also try
WrongPassword == "pw2"
\* JSON bodies of send_message: the message field, or None when it is missing
RawMessages == {" hello ", None}
\* what the completion service may answer, as phrases
GatewayTexts == {<<"Welcome.">>, <<"I understand", "Welcome.">>, <<"I'll try", "Welcome.">>}
UserSender == "user"

VARIABLES
  now,          \* clock of the web server, read by time.time()
  db_now,       \* clock of the database server, source of the created_at default
  messages,     \* messages table, rows in insertion order
  characters,   \* characters table: code_name -> row
  users,        \* users table: sequence of rows, id = position
  session,      \* Flask session of each browser
  last_called,  \* nonlocal last_called of rate_limit
  req,          \* per thread: the request being handled, its local variables, and
                \* (history) what it saw when it was released: previous, started, before
  fetched       \* history: last direct fetch_messages call and its result

vars == <<now, db_now, messages, characters, users, session, last_called, req, fetched>>

\* ------------------------------------------------------------------------
\* Pure helpers
\* ------------------------------------------------------------------------
Min(a, b) == IF a < b THEN a ELSE b

\* str.strip() on the raw form fields
Strip(s) ==
  CASE s = " "       -> ""
    [] s = " alice " -> "alice"
    [] s = " pw1 "   -> "pw1"
    [] s = " hello " -> "hello"
    [] OTHER         -> s

\* werkzeug generate_password_hash / check_password_hash
generate_password_hash(pw) == <<"hash", pw>>
check_password_hash(h, pw) == h = <<"hash", pw>>

\* f"*{name} looks at you intently* {greeting}"
GreetingText(name, greeting) == <<"*", name, " looks at you intently* ", greeting>>

\* fetch_greetings: the values random.choice may return, or the fallback
fetch_greetings(code_name) ==
  LET rows == IF code_name \in DOMAIN GreetingRows THEN GreetingRows[code_name] ELSE {}
  IN IF rows = {} THEN {"Greetings."} ELSE rows

\* str.replace(phrase, ""): the phrase is deleted wherever it appears
RECURSIVE Remove(_, _)
Remove(text, phrase) ==
  IF text = <<>> THEN <<>>
  ELSE IF Head(text) = phrase THEN Remove(Tail(text), phrase)
       ELSE <<Head(text)>> \o Remove(Tail(text), phrase)

\* response.text.strip().replace("I understand", "").replace("I'll try", "")
PostProcess(text) == Remove(Remove(text, "I understand"), "I'll try")

\* f"{m['sender']}: {m['text']}" for m in recent_msgs, joined by newlines
RECURSIVE ContextText(_)
ContextText(rows) ==
  IF rows = <<>> THEN <<>>
  ELSE <<[sender |-> Head(rows).sender, text |-> Head(rows).text]>> \o ContextText(Tail(rows))

\* model_prompt: character prompt, conversation history, "User says: ..."
ModelPrompt(character_prompt, recent_msgs, user_message) ==
  [prompt |-> character_prompt, history |-> ContextText(recent_msgs), says |-> user_message]

\* the rows of one character, in table order
RECURSIVE RowsOf(_, _)
RowsOf(table, code) ==
  IF table = <<>> THEN <<>>
  ELSE IF Head(table).character_code = code
       THEN <<Head(table)>> \o RowsOf(Tail(table), code)
       ELSE RowsOf(Tail(table), code)

\* all orders of the elements of a sequence
RECURSIVE Perms(_)
Perms(s) ==
  IF Len(s) <= 1 THEN {s}
  ELSE UNION {{<<s[i]>> \o p :
                 p \in Perms(SubSeq(s, 1, i - 1) \o SubSeq(s, i + 1, Len(s)))} :
              i \in 1..Len(s)}

\* length of the leading run of rows sharing the first row's created_at
RECURSIVE RunLen(_)
RunLen(s) ==
  IF Len(s) <= 1 THEN Len(s)
  ELSE IF s[2].created_at = s[1].created_at THEN 1 + RunLen(Tail(s)) ELSE 1

\* ORDER BY created_at ASC: the rows arrive sorted by created_at (the clock never
\* goes back, so table order is sorted); SQL leaves the order of rows with equal
\* created_at open, so every order of each run of equal keys is a possible result
RECURSIVE OrderByCreatedAt(_)
OrderByCreatedAt(s) ==
  IF s = <<>> THEN {<<>>}
  ELSE LET n == RunLen(s)
       IN {p \o r : p \in Perms(SubSeq(s, 1, n)),
                    r \in OrderByCreatedAt(SubSeq(s, n + 1, Len(s)))}

\* LIMIT n: the first n rows of the ordered result
Limit(rows, n) == SubSeq(rows, 1, Min(n, Len(rows)))

\* limit=None (or 0): `if limit:` is false
NoLimit == 0

\* fetch_messages(character_code, limit): the set of possible results;
\* `if limit:` adds the LIMIT clause
fetch_messages(table, character_code, limit) ==
  {IF limit = NoLimit THEN rows ELSE Limit(rows, limit) :
     rows \in OrderByCreatedAt(RowsOf(table, character_code))}

\* store_message: INSERT one row, created_at filled by the column default
store_message(table, character_code, sender, text, avatar, t) ==
  Append(table, [character_code |-> character_code, sender |-> sender,
                 text |-> text, avatar |-> avatar, created_at |-> t])

\* DELETE FROM messages WHERE character_code = %s
RECURSIVE DeleteOf(_, _)
DeleteOf(table, code) ==
  IF table = <<>> THEN <<>>
  ELSE IF Head(table).character_code = code
       THEN DeleteOf(Tail(table), code)
       ELSE <<Head(table)>> \o DeleteOf(Tail(table), code)

\* fault: the decorator lets every request through
login_required_mut(sess) == TRUE

\* login_required: "user_id" in session
login_required(sess) == sess.user_id # 0

\* session.clear(): no user_id (ids start at 1), no character
EmptySession == [user_id |-> 0, username |-> None, character |-> None]

\* The session of a request is the cookie it arrives with: Flask opens it when
\* the request context is pushed, before the view and its decorators run.
\* a thread that handles no request
Idle ==
  [pc |-> "idle", op |-> None, sid |-> None, cookie |-> EmptySession, character |-> None,
   user_message |-> None, arrived |-> 0, elapsed |-> 0, slept |-> FALSE,
   previous |-> 0, started |-> 0,
   prompt |-> <<>>, bot_response |-> <<>>, before |-> <<>>, status |-> 0]

\* the response of a finished request: what was asked, by whom, and the status
Done(r, status) ==
  [Idle EXCEPT !.pc = "done", !.op = r.op, !.character = r.character, !.status = status]

\* a thread that can take a new request
Free(p) == req[p].pc \in {"idle", "done"}

\* rows the running requests may still insert
Pending(r) ==
  CASE r.pc \in {"chat_fetch", "chat_seed", "ns_delete", "ns_seed",
                 "fetch_recent", "generate", "store_bot"} -> 1
    [] r.pc \in {"rl_sleep", "rl_mark", "body", "store_user"} -> 2
    [] OTHER -> 0

RECURSIVE SumPending(_)
SumPending(ps) ==
  IF ps = {} THEN 0
  ELSE LET p == CHOOSE q \in ps : TRUE IN Pending(req[p]) + SumPending(ps \ {p})

\* a request that may insert n rows is started only if a table of cap rows has room
Room(n, cap) == Len(messages) + SumPending(Procs) + n <= cap

\* new_story first deletes the rows of its character
RoomAfterDelete(code, cap) ==
  Len(messages) - Len(RowsOf(messages, code)) + SumPending(Procs) + 1 <= cap

\* ------------------------------------------------------------------------
\* Initial state: the deployed database (characters and their greetings
\* stored, no users, no messages), no session, rate limiter never called
\* ------------------------------------------------------------------------
Init ==
  /\ now = Interval
  /\ db_now = 0
  /\ messages = <<>>
  /\ characters = CharacterRows
  /\ users = <<>>
  /\ session = [s \in Sessions |-> EmptySession]
  /\ last_called = 0
  /\ req = [p \in Procs |-> Idle]
  /\ fetched = [character |-> None, limit |-> NoLimit, log |-> <<>>, rows |-> <<>>]

\* the clock advances
Tick ==
  /\ now < MaxTime
  /\ now' = now + 1
  /\ UNCHANGED <<db_now, messages, characters, users, session, last_called, req, fetched>>

\* the database clock advances
TickDb ==
  /\ db_now < MaxDbTime
  /\ db_now' = db_now + 1
  /\ UNCHANGED <<now, messages, characters, users, session, last_called, req, fetched>>

\* ------------------------------------------------------------------------
\* signup, login, logout, session expiry
\* ------------------------------------------------------------------------
UserByName(username) == {i \in 1..Len(users) : users[i].username = username}

\* POST /signup: the INSERT fails on an existing username; the handler catches
\* psycopg2.Error, a name the module never imports, so the failure escapes
signup(p, raw_username, raw_password) ==
  LET username == Strip(raw_username)
      password == Strip(raw_password)
      r == [Idle EXCEPT !.op = "signup"]
  IN /\ Free(p)
     /\ IF username = "" \/ password = ""
        THEN /\ req' = [req EXCEPT ![p] = Done(r, 302)]
             /\ UNCHANGED users
        ELSE IF UserByName(username) # {}
        THEN /\ req' = [req EXCEPT ![p] = Done(r, 500)]
             /\ UNCHANGED users
        ELSE /\ users' = Append(users, [username |-> username,
                                        password_hash |-> generate_password_hash(password)])
             /\ req' = [req EXCEPT ![p] = Done(r, 302)]
     /\ UNCHANGED <<now, db_now, messages, characters, session, last_called, fetched>>

\* fault: a successful login also makes eldrin the active character
login_mut(p, s, raw_username, raw_password) ==
  LET username == Strip(raw_username)
      password == Strip(raw_password)
      found == UserByName(username)
      r == [Idle EXCEPT !.op = "login", !.sid = s]
  IN /\ Free(p)
     /\ IF found # {} /\ \E i \in found : check_password_hash(users[i].password_hash, password)
        THEN session' = [session EXCEPT ![s].user_id = CHOOSE i \in found : TRUE,
                                        ![s].username = username,
                                        ![s].character = "eldrin"]
        ELSE UNCHANGED session
     /\ req' = [req EXCEPT ![p] = Done(r, 302)]
     /\ UNCHANGED <<now, db_now, messages, characters, users, last_called, fetched>>

\* POST /login
login(p, s, raw_username, raw_password) ==
  LET username == Strip(raw_username)
      password == Strip(raw_password)
      found == UserByName(username)
      r == [Idle EXCEPT !.op = "login", !.sid = s]
  IN /\ Free(p)
     /\ IF found # {} /\ \E i \in found : check_password_hash(users[i].password_hash, password)
        THEN session' = [session EXCEPT ![s].user_id = CHOOSE i \in found : TRUE,
                                        ![s].username = username]
        ELSE UNCHANGED session
     /\ req' = [req EXCEPT ![p] = Done(r, 302)]
     /\ UNCHANGED <<now, db_now, messages, characters, users, last_called, fetched>>

\* fault: logout removes the user but keeps the rest of the session
logout_mut(p, s) ==
  /\ Free(p)
  /\ session' = [session EXCEPT ![s].user_id = 0, ![s].username = None]
  /\ req' = [req EXCEPT ![p] = Done([Idle EXCEPT !.op = "logout", !.sid = s], 302)]
  /\ UNCHANGED <<now, db_now, messages, characters, users, last_called, fetched>>

\* GET /logout: session.clear()
logout(p, s) ==
  /\ Free(p)
  /\ session' = [session EXCEPT ![s] = EmptySession]
  /\ req' = [req EXCEPT ![p] = Done([Idle EXCEPT !.op = "logout", !.sid = s], 302)]
  /\ UNCHANGED <<now, db_now, messages, characters, users, last_called, fetched>>

\* the session cookie expires (or the browser drops it)
Expire(s) ==
  /\ session[s] # EmptySession
  /\ session' = [session EXCEPT ![s] = EmptySession]
  /\ UNCHANGED <<now, db_now, messages, characters, users, last_called, req, fetched>>


\* ------------------------------------------------------------------------
\* GET /characters and GET /chat/<character>
\* ------------------------------------------------------------------------
characters_view(p, s) ==
  LET r == [Idle EXCEPT !.op = "characters", !.sid = s, !.cookie = session[s]]
  IN /\ Free(p)
     /\ req' = [req EXCEPT ![p] = Done(r, IF login_required(r.cookie) THEN 200 ELSE 302)]
     /\ UNCHANGED <<now, db_now, messages, characters, users, session, last_called, fetched>>

\* fault: session['character'] is set before the character is looked up
chat_mut(p, s, character) ==
  LET r == [Idle EXCEPT !.op = "chat", !.sid = s, !.cookie = session[s],
                        !.character = character, !.before = messages]
  IN /\ Free(p)
     /\ IF ~login_required(r.cookie)
        THEN /\ req' = [req EXCEPT ![p] = Done(r, 302)]
             /\ UNCHANGED session
        ELSE IF character \notin DOMAIN characters
        THEN /\ session' = [session EXCEPT ![s].character = character]
             /\ req' = [req EXCEPT ![p] = Done(r, 404)]
        ELSE /\ session' = [session EXCEPT ![s].character = character]
             /\ req' = [req EXCEPT ![p] = [r EXCEPT !.pc = "chat_fetch"]]
     /\ UNCHANGED <<now, db_now, messages, characters, users, last_called, fetched>>

\* chat, lines 227-232: the login check, fetch_characters, the 404 and
\* session['character'] = character
chat(p, s, character) ==
  LET r == [Idle EXCEPT !.op = "chat", !.sid = s, !.cookie = session[s],
                        !.character = character, !.before = messages]
  IN /\ Free(p)
     /\ IF ~login_required(r.cookie)
        THEN /\ req' = [req EXCEPT ![p] = Done(r, 302)]
             /\ UNCHANGED session
        ELSE IF character \notin DOMAIN characters
        THEN /\ req' = [req EXCEPT ![p] = Done(r, 404)]
             /\ UNCHANGED session
        ELSE /\ session' = [session EXCEPT ![s].character = character]
             /\ req' = [req EXCEPT ![p] = [r EXCEPT !.pc = "chat_fetch"]]
     /\ UNCHANGED <<now, db_now, messages, characters, users, last_called, fetched>>

\* fault: the greeting is seeded whether or not the story is empty
chat_fetch_mut(p) ==
  LET r == req[p]
  IN /\ r.pc = "chat_fetch"
     /\ req' = [req EXCEPT ![p] = [r EXCEPT !.pc = "chat_seed"]]
     /\ UNCHANGED <<now, db_now, messages, characters, users, session, last_called, fetched>>

\* chat, lines 234-236: story = fetch_messages(character); if not story
chat_fetch(p) ==
  LET r == req[p]
  IN /\ r.pc = "chat_fetch"
     /\ \E story \in fetch_messages(messages, r.character, NoLimit) :
          req' = [req EXCEPT ![p] = IF story = <<>> THEN [r EXCEPT !.pc = "chat_seed"]
                                                    ELSE Done(r, 200)]
     /\ UNCHANGED <<now, db_now, messages, characters, users, session, last_called, fetched>>

\* chat, lines 237-238: the greeting is built and stored
chat_seed(p) ==
  LET r == req[p]
      row == characters[r.character]
  IN /\ r.pc = "chat_seed"
     /\ \E g \in fetch_greetings(r.character) :
          messages' = store_message(messages, r.character, r.character,
                                    GreetingText(row.name, g), row.avatar, db_now)
     /\ req' = [req EXCEPT ![p] = [r EXCEPT !.pc = "chat_refetch"]]
     /\ UNCHANGED <<now, db_now, characters, users, session, last_called, fetched>>

\* chat, lines 239-241: the story is read again and rendered
chat_refetch(p) ==
  LET r == req[p]
  IN /\ r.pc = "chat_refetch"
     /\ req' = [req EXCEPT ![p] = Done(r, 200)]
     /\ UNCHANGED <<now, db_now, messages, characters, users, session, last_called, fetched>>

\* ------------------------------------------------------------------------
\* POST /send_message behind @rate_limit(15)
\* ------------------------------------------------------------------------
\* wrapped, lines 50-51: elapsed = time.time() - last_called; if elapsed < interval
send_message(p, s, raw_message) ==
  LET elapsed == now - last_called
      r == [Idle EXCEPT !.op = "send_message", !.sid = s, !.cookie = session[s],
                        !.user_message = raw_message, !.arrived = now, !.elapsed = elapsed,
                        !.before = messages]
  IN /\ Free(p)
     /\ req' = [req EXCEPT ![p] = [r EXCEPT !.pc = IF elapsed < Interval THEN "rl_sleep"
                                                                        ELSE "rl_mark"]]
     /\ UNCHANGED <<now, db_now, messages, characters, users, session, last_called, fetched>>

\* fault: the wrapper does not wait
rl_sleep_mut(p) ==
  LET r == req[p]
  IN /\ r.pc = "rl_sleep"
     /\ req' = [req EXCEPT ![p] = [r EXCEPT !.pc = "rl_mark", !.slept = TRUE]]
     /\ UNCHANGED <<now, db_now, messages, characters, users, session, last_called, fetched>>

\* wrapped, line 52: time.sleep(interval - elapsed) returns once that long has passed
rl_sleep(p) ==
  LET r == req[p]
  IN /\ r.pc = "rl_sleep"
     /\ now >= r.arrived + (Interval - r.elapsed)
     /\ req' = [req EXCEPT ![p] = [r EXCEPT !.pc = "rl_mark", !.slept = TRUE]]
     /\ UNCHANGED <<now, db_now, messages, characters, users, session, last_called, fetched>>

\* fault: the body is called without recording the time
rl_mark_mut(p) ==
  LET r == req[p]
  IN /\ r.pc = "rl_mark"
     /\ req' = [req EXCEPT ![p] = [r EXCEPT !.pc = "body", !.previous = last_called,
                                             !.started = now]]
     /\ UNCHANGED <<now, db_now, messages, characters, users, session, last_called, fetched>>

\* wrapped, lines 53-54: last_called = time.time(); the body is called
rl_mark(p) ==
  LET r == req[p]
  IN /\ r.pc = "rl_mark"
     /\ last_called' = now
     /\ req' = [req EXCEPT ![p] = [r EXCEPT !.pc = "body", !.previous = last_called,
                                             !.started = now]]
     /\ UNCHANGED <<now, db_now, messages, characters, users, session, fetched>>

\* send_message, lines 247-258: the checks before anything is stored
send_body(p) ==
  LET r == req[p]
      character == r.cookie.character
      q == [r EXCEPT !.arrived = 0, !.elapsed = 0, !.slept = FALSE,
                     !.previous = 0, !.started = 0]
  IN /\ r.pc = "body"
     /\ req' = [req EXCEPT ![p] =
          IF r.user_message = None THEN Done(q, 400)
          ELSE IF character = None THEN Done(q, 400)
          ELSE IF character \notin DOMAIN characters
               THEN Done([q EXCEPT !.character = character], 404)
          ELSE [q EXCEPT !.pc = "store_user", !.character = character,
                         !.user_message = Strip(r.user_message)]]
     /\ UNCHANGED <<now, db_now, messages, characters, users, session, last_called, fetched>>

\* send_message, line 260: store_message(character, "user", user_message, None)
send_store_user(p) ==
  LET r == req[p]
  IN /\ r.pc = "store_user"
     /\ messages' = store_message(messages, r.character, UserSender, <<r.user_message>>, None, db_now)
     /\ req' = [req EXCEPT ![p] = [r EXCEPT !.pc = "fetch_recent"]]
     /\ UNCHANGED <<now, db_now, characters, users, session, last_called, fetched>>

\* send_message, lines 262-272: recent_msgs = fetch_messages(character, limit=10)
\* and the prompt built from them
send_fetch_recent(p) ==
  LET r == req[p]
  IN /\ r.pc = "fetch_recent"
     /\ \E recent_msgs \in fetch_messages(messages, r.character, HistoryLimit) :
          req' = [req EXCEPT ![p] =
            [r EXCEPT !.pc = "generate",
                      !.prompt = ModelPrompt(characters[r.character].prompt,
                                             recent_msgs, r.user_message)]]
     /\ UNCHANGED <<now, db_now, messages, characters, users, session, last_called, fetched>>

\* fault: when the completion service raises, the last stored row is withdrawn
send_generate_mut(p) ==
  LET r == req[p]
  IN /\ r.pc = "generate"
     /\ \/ /\ \E text \in GatewayTexts :
                req' = [req EXCEPT ![p] = [r EXCEPT !.pc = "store_bot", !.prompt = <<>>,
                                                    !.bot_response = PostProcess(text)]]
           /\ UNCHANGED messages
        \/ /\ req' = [req EXCEPT ![p] = Done(r, 500)]
           /\ messages' = SubSeq(messages, 1, Len(messages) - 1)
     /\ UNCHANGED <<now, db_now, characters, users, session, last_called, fetched>>

\* send_message, lines 274-287: the completion service answers, or raises and
\* the except clause answers 500
send_generate(p) ==
  LET r == req[p]
  IN /\ r.pc = "generate"
     /\ \/ \E text \in GatewayTexts :
             req' = [req EXCEPT ![p] = [r EXCEPT !.pc = "store_bot", !.prompt = <<>>,
                                                 !.bot_response = PostProcess(text)]]
        \/ req' = [req EXCEPT ![p] = Done(r, 500)]
     /\ UNCHANGED <<now, db_now, messages, characters, users, session, last_called, fetched>>

\* fault: the reply is stored as a message of the user
send_store_bot_mut(p) ==
  LET r == req[p]
  IN /\ r.pc = "store_bot"
     /\ messages' = store_message(messages, r.character, UserSender, r.bot_response,
                                  characters[r.character].avatar, db_now)
     /\ req' = [req EXCEPT ![p] = Done(r, 200)]
     /\ UNCHANGED <<now, db_now, characters, users, session, last_called, fetched>>

\* send_message, lines 289-295: the reply is stored and returned
send_store_bot(p) ==
  LET r == req[p]
  IN /\ r.pc = "store_bot"
     /\ messages' = store_message(messages, r.character, r.character, r.bot_response,
                                  characters[r.character].avatar, db_now)
     /\ req' = [req EXCEPT ![p] = Done(r, 200)]
     /\ UNCHANGED <<now, db_now, characters, users, session, last_called, fetched>>

\* ------------------------------------------------------------------------
\* GET /new_story
\* ------------------------------------------------------------------------
\* new_story, lines 302-307: the requested character, or 'eldrin'
new_story(p, character) ==
  LET req_character == IF character \in DOMAIN characters THEN character ELSE "eldrin"
      r == [Idle EXCEPT !.op = "new_story", !.character = req_character,
                        !.before = messages]
  IN /\ Free(p)
     /\ req' = [req EXCEPT ![p] = [r EXCEPT !.pc = "ns_delete"]]
     /\ UNCHANGED <<now, db_now, messages, characters, users, session, last_called, fetched>>

\* fault: the old messages are not deleted
ns_delete_mut(p) ==
  LET r == req[p]
  IN /\ r.pc = "ns_delete"
     /\ req' = [req EXCEPT ![p] = [r EXCEPT !.pc = "ns_seed"]]
     /\ UNCHANGED <<now, db_now, messages, characters, users, session, last_called, fetched>>

\* new_story, lines 310-316: DELETE FROM messages WHERE character_code = %s
ns_delete(p) ==
  LET r == req[p]
  IN /\ r.pc = "ns_delete"
     /\ messages' = DeleteOf(messages, r.character)
     /\ req' = [req EXCEPT ![p] = [r EXCEPT !.pc = "ns_seed"]]
     /\ UNCHANGED <<now, db_now, characters, users, session, last_called, fetched>>

\* new_story, lines 319-322: the fresh greeting is stored, then the redirect
ns_seed(p) ==
  LET r == req[p]
      row == characters[r.character]
  IN /\ r.pc = "ns_seed"
     /\ \E g \in fetch_greetings(r.character) :
          messages' = store_message(messages, r.character, r.character,
                                    GreetingText(row.name, g), row.avatar, db_now)
     /\ req' = [req EXCEPT ![p] = Done(r, 302)]
     /\ UNCHANGED <<now, db_now, characters, users, session, last_called, fetched>>

\* ------------------------------------------------------------------------
\* POST /create_character
\* ------------------------------------------------------------------------
\* the fixed sentence appended to the prompt
AdditionalPrompt == " Never acknowledge being an AI. Never say I understand - respond naturally. Always stay in character."

\* generate_unique_code_name: a random code that no stored row has at this moment
generate_unique_code_name(table) == CodePool \ DOMAIN table

\* create_character, line 330
create_character(p) ==
  /\ Free(p)
  /\ \E code_name \in generate_unique_code_name(characters) :
       req' = [req EXCEPT ![p] = [Idle EXCEPT !.op = "create_character", !.pc = "cc_insert",
                                              !.character = code_name]]
  /\ UNCHANGED <<now, db_now, messages, characters, users, session, last_called, fetched>>

\* create_character, lines 332-351: the INSERT; code_name is UNIQUE, a second row
\* with the same code_name is refused and the handler answers 400
cc_insert(p) ==
  LET r == req[p]
  IN /\ r.pc = "cc_insert"
     /\ IF r.character \in DOMAIN characters
        THEN /\ req' = [req EXCEPT ![p] = Done(r, 400)]
             /\ UNCHANGED characters
        ELSE /\ characters' = [c \in DOMAIN characters \cup {r.character} |->
                                 IF c \in DOMAIN characters THEN characters[c]
                                 ELSE [name |-> "Mira", avatar |-> "mira.png",
                                       prompt |-> <<"You are Mira.", AdditionalPrompt>>]]
             /\ req' = [req EXCEPT ![p] = Done(r, 302)]
     /\ UNCHANGED <<now, db_now, messages, users, session, last_called, fetched>>

\* ------------------------------------------------------------------------
\* Specifications
\* ------------------------------------------------------------------------
\* the character new_story resolves its argument to
Resolved(c) == IF c \in DOMAIN characters THEN c ELSE "eldrin"

\* the requests that touch only users and sessions
AccountRequest(p) ==
  \/ \E u \in RawUsernames, w \in RawPasswords : signup(p, u, w)
  \/ \E s \in Sessions, u \in RawUsernames, w \in RawPasswords \cup {WrongPassword} :
        login(p, s, u, w)
  \/ \E s \in Sessions : logout(p, s)
  \/ \E s \in Sessions : characters_view(p, s)

\* the requests that may insert messages, started while a table of cap rows has room
ChatRequest(p, cap) ==
  \/ \E s \in Sessions, c \in RequestedCodes : Room(1, cap) /\ chat(p, s, c)
  \/ \E s \in Sessions, m \in RawMessages : Room(2, cap) /\ send_message(p, s, m)
  \/ \E c \in RequestedCodes : RoomAfterDelete(Resolved(c), cap) /\ new_story(p, c)

\* thread p runs the next step of its chat, send_message or new_story request
ChatStep(p) ==
  \/ chat_fetch(p) \/ chat_seed(p) \/ chat_refetch(p)
  \/ rl_sleep(p) \/ rl_mark(p) \/ send_body(p) \/ send_store_user(p)
  \/ send_fetch_recent(p) \/ send_generate(p) \/ send_store_bot(p)
  \/ ns_delete(p) \/ ns_seed(p)

\* no request is being handled
Quiet == \A p \in Procs : Free(p)

\* Requests handled one after another: a request arrives only when none runs.
\* All rows are inserted within one unit of the created_at resolution (the
\* database clock stands still), which leaves the order of fetch results least
\* constrained.
Next ==
  \/ Tick
  \/ \E s \in Sessions : Expire(s)
  \/ Quiet /\ (AccountRequest(1) \/ ChatRequest(1, MaxMsgs) \/ create_character(1))
  \/ ChatStep(1) \/ cc_insert(1)

Spec == Init /\ [][Next]_vars

\* the bound on the table is respected
TableBounded == Len(messages) <= MaxMsgs

\* ------------------------------------------------------------------------
\* The conversation log: direct calls of store_message and fetch_messages
\* (SpecLog), and send_message on a conversation that already holds messages
\* (SpecPrompt)
\* ------------------------------------------------------------------------
\* row i of a conversation of k rows with eldrin that earlier requests built:
\* the greeting, then user messages and replies in turn; g successive rows
\* share a created_at, the last row is created at 0
PastRow(i, k, g) ==
  [character_code |-> "eldrin",
   sender |-> IF i % 2 = 1 THEN "eldrin" ELSE UserSender,
   text |-> IF i = 1 THEN GreetingText(CharacterRows["eldrin"].name, "Well met.")
            ELSE IF i % 2 = 0 THEN <<"hello">> ELSE <<"Welcome.">>,
   avatar |-> IF i % 2 = 1 THEN CharacterRows["eldrin"].avatar ELSE None,
   created_at |-> 0 - ((k - i) \div g)]

PastLog(k, g) == [i \in 1..k |-> PastRow(i, k, g)]

\* texts of the direct store_message calls
CallTexts == {<<"m1">>, <<"m2">>}

\* The server was restarted (last_called is 0 again) on a database that holds a
\* conversation; alice has logged in and opened the chat with eldrin since.
InitLog ==
  /\ now = Interval
  /\ db_now = 0
  /\ \E k \in 1..MaxLog, g \in 1..2 : messages = PastLog(k, g)
  /\ characters = CharacterRows
  /\ users = <<[username |-> "alice", password_hash |-> generate_password_hash("pw1")]>>
  /\ session = [s \in Sessions |->
                  IF s = "s1" THEN [user_id |-> 1, username |-> "alice", character |-> "eldrin"]
                  ELSE EmptySession]
  /\ last_called = 0
  /\ req = [p \in Procs |-> Idle]
  /\ fetched = [character |-> None, limit |-> NoLimit, log |-> <<>>, rows |-> <<>>]

\* a direct call store_message(character_code, sender, text)
StoreCall(character_code, sender, text) ==
  /\ messages' = store_message(messages, character_code, sender, text, None, db_now)
  /\ fetched' = [character |-> None, limit |-> NoLimit, log |-> <<>>, rows |-> <<>>]
  /\ UNCHANGED <<now, db_now, characters, users, session, last_called, req>>

\* a direct call fetch_messages(character_code, limit); log is what the table
\* holds for the character, in the order of the store_message calls
FetchCall(character_code, limit) ==
  /\ \E rows \in fetch_messages(messages, character_code, limit) :
       fetched' = [character |-> character_code, limit |-> limit,
                   log |-> RowsOf(messages, character_code), rows |-> rows]
  /\ UNCHANGED <<now, db_now, messages, characters, users, session, last_called, req>>

\* direct calls on a table that starts empty and holds at most MaxMsgs rows
NextLog ==
  \/ TickDb
  \/ \E c \in {"eldrin", "lyra"}, t \in CallTexts :
        Len(messages) < MaxMsgs /\ StoreCall(c, UserSender, t)
  \/ \E c \in {"eldrin", "lyra"}, n \in {NoLimit} \cup 1..MaxLimit : FetchCall(c, n)

SpecLog == Init /\ [][NextLog]_vars

\* send_message requests, one after another, on the conversation built earlier
NextPrompt ==
  \/ Tick
  \/ TickDb
  \/ \E s \in Sessions, m \in RawMessages :
        Quiet /\ Room(2, MaxLog + 2) /\ send_message(1, s, m)
  \/ rl_sleep(1) \/ rl_mark(1) \/ send_body(1) \/ send_store_user(1)
  \/ send_fetch_recent(1) \/ send_generate(1) \/ send_store_bot(1)

SpecPrompt == InitLog /\ [][NextPrompt]_vars

\* ------------------------------------------------------------------------
\* Requests handled by concurrent threads (SpecConc)
\* ------------------------------------------------------------------------
\* alice has signed up and is logged in from both browsers; no chat was opened
InitConc ==
  /\ now = Interval
  /\ db_now = 0
  /\ messages = <<>>
  /\ characters = CharacterRows
  /\ users = <<[username |-> "alice", password_hash |-> generate_password_hash("pw1")]>>
  /\ session = [s \in Sessions |-> [user_id |-> 1, username |-> "alice", character |-> None]]
  /\ last_called = 0
  /\ req = [p \in Procs |-> Idle]
  /\ fetched = [character |-> None, limit |-> NoLimit, log |-> <<>>, rows |-> <<>>]

\* any thread takes a chat, send_message or new_story request whenever it is
\* free, and the threads' steps interleave
NextConc ==
  \/ Tick
  \/ \E p \in Procs : ChatRequest(p, MaxMsgs)
  \/ \E p \in Procs : ChatStep(p)

SpecConc == InitConc /\ [][NextConc]_vars

\* concurrent chat views only
NextChatRace ==
  \/ \E p \in Procs, s \in Sessions, c \in RequestedCodes : Room(1, MaxMsgs) /\ chat(p, s, c)
  \/ \E p \in Procs : chat_fetch(p) \/ chat_seed(p) \/ chat_refetch(p)

SpecChatRace == InitConc /\ [][NextChatRace]_vars

\* alice has opened the chat with eldrin in one browser (the greeting is stored)
InitRate ==
  /\ now = Interval
  /\ db_now = 0
  /\ messages = <<PastRow(1, 1, 1)>>
  /\ characters = CharacterRows
  /\ users = <<[username |-> "alice", password_hash |-> generate_password_hash("pw1")]>>
  /\ session = [s \in Sessions |->
                  [user_id |-> 1, username |-> "alice",
                   character |-> IF s = "s1" THEN "eldrin" ELSE None]]
  /\ last_called = 0
  /\ req = [p \in Procs |-> Idle]
  /\ fetched = [character |-> None, limit |-> NoLimit, log |-> <<>>, rows |-> <<>>]

\* concurrent send_message requests only; the table has room for the greeting
\* and two rows of every thread
NextRate ==
  \/ Tick
  \/ \E p \in Procs, s \in Sessions, m \in RawMessages :
        Room(2, 1 + 2 * NumProcs) /\ send_message(p, s, m)
  \/ \E p \in Procs : \/ rl_sleep(p) \/ rl_mark(p) \/ send_body(p) \/ send_store_user(p)
                       \/ send_fetch_recent(p) \/ send_generate(p) \/ send_store_bot(p)

SpecRate == InitRate /\ [][NextRate]_vars

\* C4: concurrent chat views of a character without messages leave exactly one
\* greeting in its conversation, never two
C4_OneGreetingUnderRace ==
  \A c \in DOMAIN characters : Len(RowsOf(messages, c)) <= 1

\* C9: the recorded start of every send_message body is at least Interval after
\* the recorded start before it, whatever the interleaving of the threads
C9_StartsApart ==
  \A p \in Procs : req[p].pc = "body" => req[p].started - req[p].previous >= Interval

\* ------------------------------------------------------------------------
\* Properties of the conversation log (SpecLog, SpecPrompt)
\* ------------------------------------------------------------------------
\* the last n elements of a sequence
LastN(seq, n) == SubSeq(seq, Len(seq) - Min(n, Len(seq)) + 1, Len(seq))

\* every row was created later than the one stored before it
StrictlyIncreasing(rows) ==
  \A i \in 1..(Len(rows) - 1) : rows[i].created_at < rows[i + 1].created_at

\* C1: fetch_messages(character, limit=N), N >= 1, returns the last min(N, k)
\* of the k stored messages of the character, oldest first (stated for
\* conversations whose rows all have different created_at)
C1_LimitReturnsTail ==
  (fetched.character # None /\ fetched.limit # NoLimit /\ StrictlyIncreasing(fetched.log))
  => fetched.rows = LastN(fetched.log, fetched.limit)

\* C2: the history in the prompt of send_message is the last min(10, k) messages
\* of the conversation, oldest first, the user's new message among them (stated
\* for conversations whose rows all have different created_at)
C2_PromptHoldsLastTen ==
  \A p \in Procs :
    (req[p].pc = "generate" /\ StrictlyIncreasing(RowsOf(messages, req[p].character)))
    => req[p].prompt.history
         = ContextText(LastN(RowsOf(messages, req[p].character), HistoryLimit))

\* C3: an unlimited fetch_messages returns the messages of the character in the
\* order of the store_message calls, also when created_at values are equal
C3_FetchInCallOrder ==
  (fetched.character # None /\ fetched.limit = NoLimit) => fetched.rows = fetched.log

\* ------------------------------------------------------------------------
\* Properties of requests handled one after another (Spec)
\* ------------------------------------------------------------------------
\* a greeting row of character c: sent by c, the wrapped text, c's avatar
IsGreeting(row, c) ==
  /\ row.character_code = c
  /\ row.sender = c
  /\ \E g \in fetch_greetings(c) : row.text = GreetingText(characters[c].name, g)
  /\ row.avatar = characters[c].avatar

\* thread p answers its request in this step
Completes(p, op) == req[p].pc \notin {"idle", "done"} /\ req[p].op = op /\ req'[p].pc = "done"

\* C5: a chat view that found no message of its character leaves exactly one
\* message there, the wrapped greeting sent by the character; a chat view that
\* found messages leaves the conversation as it was (a second view keeps size 1)
C5_ChatSeedsOnce ==
  [][\A p \in Procs :
       Completes(p, "chat") =>
         LET c == req[p].character
             old == RowsOf(req[p].before, c)
             new == RowsOf(messages', c)
         IN IF old = <<>> THEN Len(new) = 1 /\ IsGreeting(new[1], c)
                          ELSE new = old]_vars

\* C5 witness: a chat view of an empty conversation has stored its greeting
C5_Witness ==
  \E p \in Procs :
    /\ req[p].pc = "chat_refetch"
    /\ RowsOf(req[p].before, req[p].character) = <<>>
    /\ Len(RowsOf(messages, req[p].character)) = 1

\* C6: a send_message request that stores a message or calls the completion
\* service came with a session holding a user_id and an active character
C6_SendNeedsSession ==
  \A p \in Procs :
    (req[p].op = "send_message"
       /\ req[p].pc \in {"store_user", "fetch_recent", "generate", "store_bot"})
    => (req[p].cookie.user_id # 0 /\ req[p].cookie.character # None)

\* C6 witness: a send_message of a logged-in session with an active character
\* has stored the user's message and calls the completion service
C6_Witness ==
  \E p \in Procs :
    /\ req[p].op = "send_message" /\ req[p].pc = "generate"
    /\ req[p].cookie.user_id # 0
    /\ Len(RowsOf(messages, req[p].character)) >= 2

\* C7: a chat view or character listing of a session without user_id is
\* answered by the redirect at once; neither the session nor the messages change
C7_AnonymousRedirected ==
  [][\A p \in Procs, s \in Sessions :
       (session[s].user_id = 0 /\ req'[p].op \in {"characters", "chat"}
          /\ (characters_view(p, s) \/ \E c \in RequestedCodes : chat(p, s, c)))
       => (req'[p].pc = "done" /\ req'[p].status = 302
             /\ session' = session /\ messages' = messages)]_vars

\* C7 witness: a chat view was redirected while the conversation it asked for
\* exists and is empty
C7_Witness ==
  \E p \in Procs :
    /\ req[p].pc = "done" /\ req[p].op = "chat" /\ req[p].status = 302
    /\ req[p].character \in DOMAIN characters
    /\ RowsOf(messages, req[p].character) = <<>>

\* C8: when the body of send_message is called, a request that arrived less
\* than Interval after the previous recorded start starts no earlier than
\* Interval after it, and a request that arrived later has not slept
C8_SecondCallDelayed ==
  \A p \in Procs :
    req[p].pc = "body" =>
      LET r == req[p]
      IN /\ (r.arrived - r.previous < Interval) => (r.started >= r.previous + Interval)
         /\ (r.arrived - r.previous >= Interval) => ~r.slept

\* C8 witness: a request that arrived too early has slept and reached its body
C8_Witness ==
  \E p \in Procs :
    /\ req[p].pc = "body" /\ req[p].slept
    /\ req[p].previous > 0
    /\ req[p].arrived - req[p].previous < Interval

\* C10: when new_story answers, the conversation of its character is exactly
\* one greeting sent by the character, whatever it held when the request came,
\* and the conversations of the other characters are as they were
C10_NewStoryLeavesOneGreeting ==
  [][\A p \in Procs :
       Completes(p, "new_story") =>
         LET c == req[p].character
             new == RowsOf(messages', c)
         IN /\ Len(new) = 1 /\ IsGreeting(new[1], c)
            /\ \A d \in RequestedCodes \ {c} :
                 RowsOf(messages', d) = RowsOf(req[p].before, d)]_vars

\* C10 witness: new_story has wiped a conversation of several messages while
\* another character has a conversation
C10_Witness ==
  \E p \in Procs :
    /\ req[p].pc = "ns_seed"
    /\ Len(RowsOf(req[p].before, req[p].character)) >= 2
    /\ \E d \in RequestedCodes \ {req[p].character} : RowsOf(messages, d) # <<>>

\* ------------------------------------------------------------------------
\* Conversation reset under concurrency (SpecReset)
\* ------------------------------------------------------------------------
\* chat views, send_message and new_story requests for eldrin, handled by
\* concurrent threads, on the conversation that holds eldrin's greeting; the
\* table has room for that greeting and the two rows of one send_message
NextReset ==
  \/ Tick
  \/ TickDb
  \/ \E p \in Procs : Room(1, MaxMsgs) /\ chat(p, "s1", "eldrin")
  \/ \E p \in Procs : Room(2, MaxMsgs) /\ send_message(p, "s1", " hello ")
  \/ \E p \in Procs : RoomAfterDelete("eldrin", MaxMsgs) /\ new_story(p, "eldrin")
  \/ \E p \in Procs : ChatStep(p)

SpecReset == InitRate /\ [][NextReset]_vars

\* the greeting rows in the conversation of character c
GreetingCount(c) ==
  LET rows == RowsOf(messages, c)
  IN Cardinality({i \in 1..Len(rows) : IsGreeting(rows[i], c)})

\* C11: no chat view finds the conversation empty while a new_story for the
\* same character stands between its delete and its greeting insert, and
\* whenever no request is in progress the conversation holds exactly one greeting
C11_ResetAtomic ==
  /\ [](Quiet => GreetingCount("eldrin") = 1)
  /\ [][\A p \in Procs :
          (req[p].pc = "chat_fetch" /\ req'[p].pc = "chat_seed")
          => ~\E q \in Procs : /\ req[q].pc = "ns_seed"
                               /\ req[q].character = req[p].character]_vars

\* ------------------------------------------------------------------------
\* Character creation under concurrency (SpecCreate)
\* ------------------------------------------------------------------------
\* create_character requests and chat views (also of the created character),
\* handled by concurrent threads
NextCreate ==
  \/ \E p \in Procs : create_character(p)
  \/ \E p \in Procs : cc_insert(p)
  \/ \E p \in Procs, s \in Sessions, c \in RequestedCodes : Room(1, MaxMsgs) /\ chat(p, s, c)
  \/ \E p \in Procs : chat_fetch(p) \/ chat_seed(p) \/ chat_refetch(p)

SpecCreate == InitConc /\ [][NextCreate]_vars

\* C12: the code_name a create_character request holds is neither stored
\* already nor held by another request in flight, and no create_character
\* request is answered with the error of a refused insert
C12_CodeNameNeverCollides ==
  /\ \A p \in Procs, q \in Procs :
       (p # q /\ req[p].pc = "cc_insert" /\ req[q].pc = "cc_insert")
       => req[p].character # req[q].character
  /\ \A p \in Procs :
       (req[p].op = "create_character" /\ req[p].pc = "done") => req[p].status = 302

\* ------------------------------------------------------------------------
\* Further properties of requests handled one after another (Spec)
\* ------------------------------------------------------------------------
\* C13: a send_message that answers 200 has appended to the conversation of the
\* session's active character, after the rows it found there, the user's
\* trimmed message with sender "user" and then the reply with the character as
\* sender, and nothing else
C13_SendAppendsUserThenReply ==
  [][\A p \in Procs :
       (Completes(p, "send_message") /\ req'[p].status = 200) =>
         LET c == req[p].character
             old == RowsOf(req[p].before, c)
             new == RowsOf(messages', c)
             n == Len(old)
         IN /\ c = req[p].cookie.character
            /\ req[p].cookie.user_id # 0
            /\ Len(new) = n + 2
            /\ SubSeq(new, 1, n) = old
            /\ new[n + 1].sender = UserSender
            /\ new[n + 1].text = <<req[p].user_message>>
            /\ new[n + 2].sender = c
            /\ new[n + 2].text = req[p].bot_response
            /\ Len(messages') = Len(req[p].before) + 2]_vars

\* C13 witness: after the first chat view and one send_message the conversation
\* is the greeting, the user's message and the reply
C13_Witness ==
  \E p \in Procs :
    /\ req[p].pc = "done" /\ req[p].op = "send_message" /\ req[p].status = 200
    /\ LET rows == RowsOf(messages, req[p].character)
       IN /\ Len(rows) = 3
          /\ IsGreeting(rows[1], req[p].character)
          /\ rows[2].sender = UserSender /\ rows[2].text = <<"hello">>
          /\ rows[3].sender = req[p].character /\ rows[3].text = <<"Welcome.">>

\* ------------------------------------------------------------------------
\* Validation of the message field (SpecValidate)
\* ------------------------------------------------------------------------
\* JSON bodies whose message field is empty or only whitespace
BlankMessages == {"", " "}

\* send_message requests, one after another, with a message, a blank message
\* or none, from a session with an active character and from one without
NextValidate ==
  \/ Tick
  \/ \E s \in Sessions, m \in RawMessages \cup BlankMessages :
        Quiet /\ Room(2, MaxMsgs) /\ send_message(1, s, m)
  \/ rl_sleep(1) \/ rl_mark(1) \/ send_body(1) \/ send_store_user(1)
  \/ send_fetch_recent(1) \/ send_generate(1) \/ send_store_bot(1)

SpecValidate == InitRate /\ [][NextValidate]_vars

\* C14: when the body of send_message runs for a request whose message field
\* is missing, empty or blank, or whose session has no active character, it
\* answers 400 at once and the messages table stays as it is
C14_BadRequestAnswered400 ==
  [][\A p \in Procs :
       (/\ req[p].pc = "body" /\ req'[p].pc # "body"
        /\ \/ req[p].user_message = None
           \/ Strip(req[p].user_message) = ""
           \/ req[p].cookie.character = None)
       => (req'[p].pc = "done" /\ req'[p].status = 400 /\ messages' = messages)]_vars

\* C15: every signup is answered with a redirect (to login after success, back
\* to the form with a message otherwise), never with an unhandled failure, and
\* no two stored users have the same username
C15_DuplicateSignupHandled ==
  /\ \A p \in Procs :
       (req[p].op = "signup" /\ req[p].pc = "done") => req[p].status = 302
  /\ \A i \in 1..Len(users), j \in 1..Len(users) :
       users[i].username = users[j].username => i = j

\* C16: logout and expiry leave the session without user_id and without active
\* character; a chat view or character listing of a session without user_id is
\* redirected; send_message of a session without active character is answered
\* 400 and stores nothing; a session gets its user_id back only by a login and
\* an active character only by a chat view made with a user_id
C16_LoggedOutRefused ==
  [][/\ \A s \in Sessions :
          (Expire(s) \/ \E p \in Procs : req'[p].op = "logout" /\ logout(p, s))
          => (session'[s].user_id = 0 /\ session'[s].character = None)
     /\ \A p \in Procs, s \in Sessions :
          (session[s].user_id = 0 /\ req'[p].op \in {"characters", "chat"}
             /\ (characters_view(p, s) \/ \E c \in RequestedCodes : chat(p, s, c)))
          => (req'[p].pc = "done" /\ req'[p].status = 302)
     /\ \A p \in Procs :
          (req[p].pc = "body" /\ req'[p].pc # "body" /\ req[p].cookie.character = None)
          => (req'[p].pc = "done" /\ req'[p].status = 400 /\ messages' = messages)
     /\ \A s \in Sessions :
          (session[s].user_id = 0 /\ session'[s].user_id # 0)
          => (session'[s].character = None
                /\ \E p \in Procs : req'[p].op = "login" /\ req'[p].pc = "done" /\ Free(p))
     /\ \A s \in Sessions :
          (session[s].character = None /\ session'[s].character # None)
          => (session[s].user_id # 0
                /\ \E p \in Procs : /\ req'[p].op = "chat" /\ req'[p].sid = s
                                    /\ req'[p].pc = "chat_fetch" /\ Free(p))]_vars

\* C16 witness: a session that has logged in and has no active character sends
\* a message, while a conversation opened earlier is stored
C16_Witness ==
  \E p \in Procs :
    /\ req[p].op = "send_message" /\ req[p].pc = "body"
    /\ req[p].user_message # None
    /\ req[p].cookie.user_id # 0 /\ req[p].cookie.character = None
    /\ messages # <<>>

\* the steps of the body of send_message
BodyPcs == {"body", "store_user", "fetch_recent", "generate", "store_bot"}

\* C17: the body of send_message is entered only by the step that writes
\* last_called; the value written is the clock at that moment, which is not
\* before the arrival nor, for a request that waited, before the end of its
\* wait; no step of the body, its last one included, writes last_called
C17_MarkedBeforeBody ==
  [][\A p \in Procs :
       /\ (req[p].pc # "body" /\ req'[p].pc = "body")
          => /\ req[p].pc = "rl_mark"
             /\ last_called' = now
             /\ now >= req[p].arrived
             /\ req[p].slept => now >= req[p].arrived + (Interval - req[p].elapsed)
       /\ (req[p].pc \in BodyPcs /\ req'[p] # req[p]) => last_called' = last_called]_vars

\* C17 witness: the body has run for some seconds since its start was
\* recorded and is about to finish
C17_Witness ==
  \E p \in Procs :
    /\ req[p].pc = "store_bot"
    /\ last_called > 0
    /\ now >= last_called + 2

\* C18: a step that changes a session's active character either clears it
\* together with the user_id (logout, expiry) or is the chat view of a stored
\* character by that session, logged in, and sets it to that character; every
\* other request, the chat view answered 404 included, leaves it as it was
C18_OnlyChatSetsCharacter ==
  [][\A s \in Sessions :
       session'[s].character # session[s].character
       => \/ session'[s] = EmptySession
          \/ \E p \in Procs :
               /\ Free(p) /\ req'[p].op = "chat" /\ req'[p].pc = "chat_fetch"
               /\ req'[p].sid = s /\ session[s].user_id # 0
               /\ req'[p].character \in DOMAIN characters
               /\ session'[s].character = req'[p].character
               /\ session'[s].user_id = session[s].user_id]_vars

\* C18 witness: a logged-in session with an active character has asked for a
\* character that is not stored and got 404
C18_Witness ==
  \E p \in Procs, s \in Sessions :
    /\ req[p].pc = "done" /\ req[p].op = "chat" /\ req[p].status = 404
    /\ session[s].user_id # 0
    /\ session[s].character \in DOMAIN characters
    /\ \A t \in Sessions \ {s} : session[t] = EmptySession

\* C19: a send_message answered 500 ends at the call of the completion
\* service, made once; the conversation then holds the rows it held when the
\* request came and after them the user's message, and no other row was stored
C19_GatewayFailureKeepsUserMessage ==
  [][\A p \in Procs :
       /\ (Completes(p, "send_message") /\ req'[p].status = 500) =>
            LET c == req[p].character
                old == RowsOf(req[p].before, c)
                new == RowsOf(messages', c)
                n == Len(old)
            IN /\ req[p].pc = "generate"
               /\ Len(new) = n + 1
               /\ SubSeq(new, 1, n) = old
               /\ new[n + 1].sender = UserSender
               /\ new[n + 1].text = <<req[p].user_message>>
               /\ Len(messages') = Len(req[p].before) + 1
       /\ (req[p].pc = "generate" /\ req'[p] # req[p])
            => req'[p].pc \in {"store_bot", "done"}]_vars

\* C19 witness: a send_message was answered 500 and the user's message is the
\* last row of the conversation, behind the greeting
C19_Witness ==
  \E p \in Procs :
    /\ req[p].pc = "done" /\ req[p].op = "send_message" /\ req[p].status = 500
    /\ LET rows == RowsOf(messages, req[p].character)
       IN /\ Len(rows) = 2
          /\ IsGreeting(rows[1], req[p].character)
          /\ rows[2].sender = UserSender

\* C20: whenever no request is in progress, the conversation of every
\* character is empty or begins with a greeting sent by the character,
\* whatever the interleaving of chat views, send_message and new_story
\* requests before (the conversation read in an order fetch_messages may
\* return: where created_at values are equal, the order that favours the
\* statement)
C20_ConversationBeginsWithGreeting ==
  Quiet => \A c \in DOMAIN characters :
             \E rows \in fetch_messages(messages, c, NoLimit) :
               rows = <<>> \/ IsGreeting(rows[1], c)

====
